---- MODULE Spec2Model ----
(***************************************************************************)
(* A model of task.py: a project/task tracker persisted in one JSON        *)
(* document (tasks.json), with a forward-only schema migrator and a        *)
(* branch-name codec.                                                      *)
(*                                                                         *)
(* Every command is a process that reads the document in one step and      *)
(* finishes (body, then the write, if any) in a second step, so that two   *)
(* commands run from two shells can interleave between the read and the    *)
(* write.  Spec runs the commands one after the other; SpecRace lets them  *)
(* interleave; SpecCodec exercises the branch-name codec alone.            *)
(*                                                                         *)
(* Strings that the code takes apart (branch names, titles, project        *)
(* abbreviations) are sequences of one-character strings.                  *)
(***************************************************************************)
EXTENDS Integers, Sequences, FiniteSets, TLC

\* ------------------------------------------------------------------ bounds

\* The model registers 1..MaxMigrations migration steps (the repository
\* registers one); the loop of migrate_project is the same for any number.
MaxMigrations == 2
\* Largest next_id a loaded project may have reached before add is refused.
MaxId == 2
\* Number of steps an interleaved run (SpecRace) takes.
MaxRaceSteps == 5
\* Codec inputs: abbreviations up to this length, titles up to this length,
\* ids up to this number.
MaxAbbvLen == 3
MaxTitleLen == 2
MaxCodecId == 11

\* The shells commands are issued from: two, so that one command can run
\* between the read and the write of another.
Procs == {1, 2}

\* ------------------------------------------------------------------ values

\* Optional[int]: None is the empty sequence, an int i is <<i>>.
None == <<>>
Some(i) == <<i>>

INCOMPLETE == "incomplete"
STARTED == "started"
COMPLETE == "complete"
TaskStatus == {INCOMPLETE, STARTED, COMPLETE}

\* class Task: id, title, status (default INCOMPLETE).
Task(id, title) == [id |-> id, title |-> title, status |-> INCOMPLETE]

EmptyTasks == [k \in {} |-> Task(0, <<>>)]

Put(tasks, k, task) ==
    [j \in DOMAIN tasks \cup {k} |-> IF j = k THEN task ELSE tasks[j]]

\* ------------------------------------------------------- the branch codec

Digits == <<"0", "1", "2", "3", "4", "5", "6", "7", "8", "9">>

IsDigit(c) == \E d \in 1..10 : Digits[d] = c

DigitVal(c) == (CHOOSE d \in 1..10 : Digits[d] = c) - 1

\* The sign characters the parse library lets a number start with.
IsSign(c) == c \in {"-", "+", " "}

\* format(n, "d")
RECURSIVE IntToStr(_)
IntToStr(n) ==
    IF n < 0 THEN <<"-">> \o IntToStr(0 - n)
    ELSE IF n < 10 THEN <<Digits[n + 1]>>
    ELSE IntToStr(n \div 10) \o <<Digits[(n % 10) + 1]>>

\* int(digits, 10)
RECURSIVE StrToInt(_)
StrToInt(s) ==
    IF s = <<>> THEN 0
    ELSE 10 * StrToInt(SubSeq(s, 1, Len(s) - 1)) + DigitVal(s[Len(s)])

\* str.lower() on the letters the model uses.
Lower(c) == IF c = "A" THEN "a" ELSE IF c = "B" THEN "b" ELSE c

\* task.title.lower().replace(" ", "-")
BranchTitle(title) ==
    [i \in 1..Len(title) |-> IF Lower(title[i]) = " " THEN "-" ELSE Lower(title[i])]

\* BRANCH_FORMAT_STRING.format(project_abbv=.., task_id=.., task_title=..)
Encode(abbv, id, title) ==
    abbv \o <<"-">> \o IntToStr(id) \o <<"/">> \o BranchTitle(title)

\* First index after the run of digits that starts at i.
RECURSIVE DigitsEnd(_, _)
DigitsEnd(s, i) ==
    IF i <= Len(s) /\ IsDigit(s[i]) THEN DigitsEnd(s, i + 1) ELSE i

\* The tail "{task_id:d}/{task_title}" matched at index i of s, as the parse
\* library's pattern [-+ ]?\d+ followed by "/" and one character or more does.
\* (Its 0x/0o/0b alternatives need an x, o or b right after a 0, which no
\* string of the model has before the "/".)
MatchIdAt(s, i) ==
    LET j == IF i <= Len(s) /\ IsSign(s[i]) THEN i + 1 ELSE i
        e == DigitsEnd(s, j)
    IN  [ok |-> e > j /\ e < Len(s) /\ s[e] = "/",
         value |-> IF e > j
                   THEN (IF j > i /\ s[i] = "-" THEN 0 - 1 ELSE 1)
                        * StrToInt(SubSeq(s, j, e - 1))
                   ELSE 0]

\* parse.parse(BRANCH_FORMAT_STRING, branch)["task_id"]: project_abbv is the
\* shortest non-empty prefix followed by "-" after which the tail matches.
\* No match: parse returns None and the subscript raises TypeError.
Decode(branch) ==
    LET cands == {i \in 2..Len(branch) :
                     branch[i] = "-" /\ MatchIdAt(branch, i + 1).ok}
    IN  IF cands = {}
        THEN [ok |-> FALSE, task_id |-> 0]
        ELSE LET i == CHOOSE c \in cands : \A d \in cands : c <= d
             IN  [ok |-> TRUE, task_id |-> MatchIdAt(branch, i + 1).value]

\* ------------------------------------------------------------ the document

\* The raw document is a JSON object: a record whose keys may be missing.
\* "applied" is not a key of the file: it lists, in order, the migration
\* steps whose edits the content carries, and travels with the content.
Name == <<"D">>
Abbv == <<"X">>

\* A faulty variant: the default taken for a missing version is 0.
GetVersionDefaultZero(raw) == IF "version" \in DOMAIN raw THEN raw.version ELSE 0

\* project.get("version", -1)
GetVersion(raw) == IF "version" \in DOMAIN raw THEN raw.version ELSE 0 - 1

\* project[key] = value on a dict
SetKey(raw, key, value) ==
    [k \in DOMAIN raw \cup {key} |-> IF k = key THEN value ELSE raw[k]]

\* The steps 0..v in order.
RECURSIVE UpTo(_)
UpTo(v) == IF v < 0 THEN <<>> ELSE Append(UpTo(v - 1), v)

\* A document of an earlier release: no version, no next_id, no tasks, and
\* a key the typed model does not know.
LegacyDoc ==
    [name |-> Name, project_abbv |-> Abbv, notes |-> <<"n">>, applied |-> <<>>]

\* The task maps a document starts with: none; and one whose key 1 is taken
\* while next_id is still 0 (a hand-edited document).
FreshContent == [next_id |-> 0, tasks |-> EmptyTasks]
OccupiedContent == [next_id |-> 0, tasks |-> Put(EmptyTasks, 1, Task(1, <<"a">>))]

VersionedDoc(v, c) ==
    [name |-> Name, project_abbv |-> Abbv, next_id |-> c.next_id,
     tasks |-> c.tasks, version |-> v, applied |-> UpTo(v)]

\* The documents a run starts from, n migration steps being registered:
\* versions -1..n-1 are behind or current, n is a document of a later release.
\* The hand-edited task map comes at the current version.
InitDocs(n) ==
    {LegacyDoc, VersionedDoc(n - 1, OccupiedContent)} \cup
    {VersionedDoc(v, FreshContent) : v \in (0 - 1)..n}

NoProject == [name |-> <<>>]

\* Project.parse_file: name, project_abbv and version are required, next_id
\* and tasks have defaults, unknown keys are dropped.
read(raw) ==
    IF {"name", "project_abbv", "version"} \subseteq DOMAIN raw
    THEN [ok |-> TRUE,
          project |->
            [name |-> raw.name,
             project_abbv |-> raw.project_abbv,
             next_id |-> IF "next_id" \in DOMAIN raw THEN raw.next_id ELSE 0,
             tasks |-> IF "tasks" \in DOMAIN raw THEN raw.tasks ELSE EmptyTasks,
             version |-> raw.version,
             applied |-> raw.applied]]
    ELSE [ok |-> FALSE, project |-> NoProject]

\* Project(**kwargs): the model's constructor validates as parse_file does;
\* name, project_abbv and version have no default.
Project(kwargs) ==
    IF {"name", "project_abbv", "version"} \subseteq DOMAIN kwargs
    THEN [ok |-> TRUE,
          project |->
            [name |-> kwargs.name,
             project_abbv |-> kwargs.project_abbv,
             next_id |-> IF "next_id" \in DOMAIN kwargs THEN kwargs.next_id ELSE 0,
             tasks |-> IF "tasks" \in DOMAIN kwargs THEN kwargs.tasks ELSE EmptyTasks,
             version |-> kwargs.version,
             applied |-> UpTo(kwargs.version)]]
    ELSE [ok |-> FALSE, project |-> NoProject]

\* Project.write: self.json() holds every field of the model.
write(project) ==
    [k \in {"name", "project_abbv", "next_id", "tasks", "version", "applied"}
        |-> project[k]]

\* next_id and tasks as a reader of the document sees them.
NextIdOf(raw) == IF "next_id" \in DOMAIN raw THEN raw.next_id ELSE 0
TasksOf(raw) == IF "tasks" \in DOMAIN raw THEN raw.tasks ELSE EmptyTasks

\* ------------------------------------------------------------ the registry

\* A faulty variant: a missing key yields a new task instead of an error.
get_task_default(project, task_id) ==
    IF Len(task_id) = 1
    THEN [ok |-> TRUE,
          task |-> IF task_id[1] \in DOMAIN project.tasks
                   THEN project.tasks[task_id[1]]
                   ELSE Task(task_id[1], <<>>)]
    ELSE [ok |-> FALSE, task |-> Task(0, <<>>)]

\* Project.get_task: tasks.get(task_id) is None for a missing key and for None.
get_task(project, task_id) ==
    IF Len(task_id) = 1 /\ task_id[1] \in DOMAIN project.tasks
    THEN [ok |-> TRUE, task |-> project.tasks[task_id[1]]]
    ELSE [ok |-> FALSE, task |-> Task(0, <<>>)]

\* A faulty variant: a guarded state machine that refuses Complete -> Started.
update_task_status_guarded(project, task_id, status) ==
    LET r == get_task(project, task_id)
    IN  IF r.ok /\ ~(r.task.status = COMPLETE /\ status = STARTED)
        THEN [ok |-> TRUE,
              task |-> [r.task EXCEPT !.status = status],
              project |-> [project EXCEPT
                             !.tasks[task_id[1]] = [r.task EXCEPT !.status = status]]]
        ELSE [ok |-> FALSE, task |-> r.task, project |-> project]

\* A faulty variant: setting the status a task already has switches it back
\* to Incomplete.
update_task_status_toggle(project, task_id, status) ==
    LET r == get_task(project, task_id)
        s == IF r.ok /\ r.task.status = status THEN INCOMPLETE ELSE status
    IN  IF r.ok
        THEN [ok |-> TRUE,
              task |-> [r.task EXCEPT !.status = s],
              project |-> [project EXCEPT
                             !.tasks[task_id[1]] = [r.task EXCEPT !.status = s]]]
        ELSE [ok |-> FALSE, task |-> r.task, project |-> project]

\* A faulty variant: the task is built anew with the status, its title is lost.
update_task_status_rebuild(project, task_id, status) ==
    LET r == get_task(project, task_id)
        t == [Task(r.task.id, <<>>) EXCEPT !.status = status]
    IN  IF r.ok
        THEN [ok |-> TRUE, task |-> t,
              project |-> [project EXCEPT !.tasks[task_id[1]] = t]]
        ELSE [ok |-> FALSE, task |-> r.task, project |-> project]

\* Project.update_task_status: the fetched task's status is overwritten in place.
update_task_status(project, task_id, status) ==
    LET r == get_task(project, task_id)
    IN  IF r.ok
        THEN [ok |-> TRUE,
              task |-> [r.task EXCEPT !.status = status],
              project |-> [project EXCEPT
                             !.tasks[task_id[1]] = [r.task EXCEPT !.status = status]]]
        ELSE [ok |-> FALSE, task |-> r.task, project |-> project]

\* A faulty variant: the new id is next_id + 1 but next_id is not advanced.
add_body_no_increment(project, title) ==
    LET task == Task(project.next_id + 1, title)
    IN  IF task.id \in DOMAIN project.tasks
        THEN [ok |-> FALSE, task |-> task, project |-> project]
        ELSE [ok |-> TRUE, task |-> task,
              project |-> [project EXCEPT !.tasks = Put(project.tasks, task.id, task)]]

\* A faulty variant: no assertion, the new task replaces the one under its id.
add_body_overwrite(project, title) ==
    LET p1 == [project EXCEPT !.next_id = project.next_id + 1]
        task == Task(p1.next_id, title)
    IN  [ok |-> TRUE, task |-> task,
         project |-> [p1 EXCEPT !.tasks = Put(p1.tasks, task.id, task)]]

\* A faulty variant: the task takes next_id as it was before the increment.
add_body_stale_id(project, title) ==
    LET p1 == [project EXCEPT !.next_id = project.next_id + 1]
        task == Task(project.next_id, title)
    IN  IF task.id \in DOMAIN p1.tasks
        THEN [ok |-> FALSE, task |-> task, project |-> p1]
        ELSE [ok |-> TRUE, task |-> task,
              project |-> [p1 EXCEPT !.tasks = Put(p1.tasks, task.id, task)]]

\* The body of add: next_id is incremented first, the new id must be free.
add_body(project, title) ==
    LET p1 == [project EXCEPT !.next_id = project.next_id + 1]
        task == Task(p1.next_id, title)
    IN  IF task.id \in DOMAIN p1.tasks
        THEN [ok |-> FALSE, task |-> task, project |-> p1]
        ELSE [ok |-> TRUE, task |-> task,
              project |-> [p1 EXCEPT !.tasks = Put(p1.tasks, task.id, task)]]

\* A faulty variant: the write sits in a finally clause.
project_context_finally(read_only, body_ok, project, onDisk) ==
    IF ~read_only
    THEN [wrote |-> 1, file |-> write(project)]
    ELSE [wrote |-> 0, file |-> onDisk]

\* A faulty variant: a merging save that keeps what is on disk and the unit
\* did not load (tasks under other keys, a later next_id, a later version).
project_context_merge(read_only, body_ok, project, onDisk) ==
    IF body_ok /\ ~read_only
    THEN LET disk == read(onDisk).project
             keys == DOMAIN project.tasks \cup DOMAIN disk.tasks
         IN  [wrote |-> 1,
              file |-> write([project EXCEPT
                  !.tasks = [k \in keys |-> IF k \in DOMAIN project.tasks
                                            THEN project.tasks[k] ELSE disk.tasks[k]],
                  !.next_id = IF disk.next_id > @ THEN disk.next_id ELSE @,
                  !.version = IF disk.version > @ THEN disk.version ELSE @,
                  !.applied = IF disk.version > project.version
                              THEN disk.applied ELSE @])]
    ELSE [wrote |-> 0, file |-> onDisk]

\* project_context after the yield: the write happens when the body returned
\* and read_only is false; an exception of the body skips it.
project_context(read_only, body_ok, project, onDisk) ==
    IF body_ok /\ ~read_only
    THEN [wrote |-> 1, file |-> write(project)]
    ELSE [wrote |-> 0, file |-> onDisk]

\* ------------------------------------------------------------ the migrator

\* migration_func(project): the step edits the raw document in place.
ApplyStep(raw, idx) == [raw EXCEPT !.applied = Append(@, idx)]

\* A faulty variant of the loop: a step is skipped when idx < version.
RECURSIVE RunMigrationsStrict(_, _, _, _, _, _)
RunMigrationsStrict(raw, version, idx, n, failAt, ran) ==
    IF idx >= n THEN [ok |-> TRUE, project |-> raw, ran |-> ran, raised |-> 0 - 1]
    ELSE IF idx < version
    THEN RunMigrationsStrict(raw, version, idx + 1, n, failAt, ran)
    ELSE IF idx = failAt
    THEN [ok |-> FALSE, project |-> raw, ran |-> ran, raised |-> idx]
    ELSE RunMigrationsStrict(SetKey(ApplyStep(raw, idx), "version", idx),
                             version, idx + 1, n, failAt, Append(ran, idx))

\* The loop of migrate_project from index idx on, n steps being registered.
\* version is read once, before the loop.  failAt is the step that raises
\* (-1: none does).  ran lists the steps that returned.
RECURSIVE RunMigrations(_, _, _, _, _, _)
RunMigrations(raw, version, idx, n, failAt, ran) ==
    IF idx >= n THEN [ok |-> TRUE, project |-> raw, ran |-> ran, raised |-> 0 - 1]
    ELSE IF idx <= version
    THEN RunMigrations(raw, version, idx + 1, n, failAt, ran)
    ELSE IF idx = failAt
    THEN [ok |-> FALSE, project |-> raw, ran |-> ran, raised |-> idx]
    ELSE RunMigrations(SetKey(ApplyStep(raw, idx), "version", idx),
                       version, idx + 1, n, failAt, Append(ran, idx))

\* The loop as a function of what it returns, for the faulty variant below.
RECURSIVE RunPartial(_, _, _, _, _, _)
RunPartial(raw, version, idx, n, failAt, ran) ==
    IF idx >= n THEN [ok |-> TRUE, project |-> raw, ran |-> ran, raised |-> 0 - 1]
    ELSE IF idx <= version
    THEN RunPartial(raw, version, idx + 1, n, failAt, ran)
    ELSE IF idx = failAt
    THEN [ok |-> FALSE, project |-> SetKey(raw, "version", idx), ran |-> ran,
          raised |-> idx]
    ELSE RunPartial(SetKey(ApplyStep(raw, idx), "version", idx),
                    version, idx + 1, n, failAt, Append(ran, idx))

\* A faulty variant: the version is set before the step is called, and the
\* write sits in a finally clause.
migrate_project_finally(raw, n, failAt, onDisk) ==
    LET r == RunPartial(raw, GetVersion(raw), 0, n, failAt, <<>>)
    IN  [ok |-> r.ok, ran |-> r.ran, raised |-> r.raised,
         wrote |-> 1, file |-> r.project]

\* migrate_project after the read: the write is reached when no step raised.
migrate_project(raw, n, failAt, onDisk) ==
    LET r == RunMigrations(raw, GetVersion(raw), 0, n, failAt, <<>>)
    IN  [ok |-> r.ok, ran |-> r.ran, raised |-> r.raised,
         wrote |-> IF r.ok THEN 1 ELSE 0,
         file |-> IF r.ok THEN r.project ELSE onDisk]

\* ----------------------------------------------------------------- state

VARIABLES
    mode,      \* "seq": one command at a time; "race": commands interleave
    nmig,      \* len(MIGRATIONS)
    file,      \* the content of tasks.json
    proc,      \* per shell: the command in progress and what it read
    last,      \* the command that finished last, and how (cleared by the next read)
    doc0,      \* history: the document the run started from
    assigned,  \* history: the ids the successful adds assigned, in order
    steps,     \* number of steps taken (counted in SpecRace only)
    codec      \* the codec exercise of SpecCodec

vars == <<mode, nmig, file, proc, last, doc0, assigned, steps, codec>>

\* The titles task add is given, and the ids and branch names the status
\* commands are given.
Titles == {<<>>, <<"A", " ", "b">>}
IdInputs == 1..MaxId
BranchInputs == {Encode(Abbv, 1, <<"A", " ", "b">>), <<"X", "1">>, <<>>}

IdleProc ==
    [pc |-> "idle", cmd |-> "none", id |-> None, title |-> <<>>, mem |-> NoProject]

NoLast ==
    [cmd |-> "none", id |-> None, title |-> <<>>, outcome |-> "none", wrote |-> 0,
     pre |-> NoProject, loaded |-> NoProject, branch |-> None,
     ran |-> <<>>, raised |-> 0 - 1]

CodecOff == [pc |-> "off", abbv |-> <<>>, id |-> 0, title |-> <<>>,
             branch |-> <<>>, decoded |-> [ok |-> FALSE, task_id |-> 0]]

Start ==
    /\ nmig \in 1..MaxMigrations
    /\ file \in InitDocs(nmig)
    /\ doc0 = file
    /\ proc = [p \in Procs |-> IdleProc]
    /\ last = NoLast
    /\ assigned = <<>>
    /\ steps = 0
    /\ codec = CodecOff

Init == mode = "seq" /\ Start

InitRace == mode = "race" /\ Start

\* Scheduling.  In "seq" mode every command is issued from shell 1, which
\* runs it to its end before the next; in "race" mode both shells issue
\* commands, for MaxRaceSteps steps in all.
Turn(p) ==
    /\ mode = "seq" => p = 1
    /\ mode = "race" => steps < MaxRaceSteps
    /\ steps' = IF mode = "race" THEN steps + 1 ELSE steps
    /\ UNCHANGED <<mode, nmig, doc0, codec>>

\* How a command ended.
Finished(c, id, title, outcome, wrote, loaded, branch, ran, raised) ==
    [cmd |-> c, id |-> id, title |-> title, outcome |-> outcome, wrote |-> wrote,
     pre |-> file, loaded |-> loaded, branch |-> branch, ran |-> ran,
     raised |-> raised]

\* `with project_context(..) as project`: Project.read(), then the body waits
\* for its turn.  A document that does not validate ends the command here.
Load(p, c, id, title) ==
    /\ proc[p].pc = "idle"
    /\ Turn(p)
    /\ LET r == read(file)
       IN  IF r.ok
           THEN /\ proc' = [proc EXCEPT ![p] =
                              [pc |-> "loaded", cmd |-> c, id |-> id,
                               title |-> title, mem |-> r.project]]
                /\ last' = NoLast
           ELSE /\ proc' = proc
                /\ last' = Finished(c, id, title, "ValidationError", 0,
                                    NoProject, None, <<>>, 0 - 1)
    /\ UNCHANGED <<file, assigned>>

\* The end of a unit of work: body outcome, then project_context's exit.
Exit(p, read_only, outcome, project, branch) ==
    LET x == project_context(read_only, outcome = "ok", project, file)
    IN  /\ Turn(p)
        /\ file' = x.file
        /\ last' = Finished(proc[p].cmd, proc[p].id, proc[p].title, outcome,
                            x.wrote, proc[p].mem, branch, <<>>, 0 - 1)
        /\ proc' = [proc EXCEPT ![p] = IdleProc]

Running(p, c) == proc[p].pc = "loaded" /\ proc[p].cmd = c

\* task add --title
AddLoad(p) ==
    \E title \in Titles :
        /\ NextIdOf(file) < MaxId
        /\ Load(p, "add", None, title)

AddFinish(p) ==
    /\ Running(p, "add")
    /\ LET b == add_body(proc[p].mem, proc[p].title)
       IN  /\ Exit(p, FALSE, IF b.ok THEN "ok" ELSE "AssertionError", b.project, None)
           /\ assigned' = IF b.ok THEN Append(assigned, b.task.id) ELSE assigned

\* task start TASK_ID
StartLoad(p) == \E id \in IdInputs : Load(p, "start", Some(id), <<>>)

\* A faulty variant: a failure of the checkout is caught and the body returns.
start_body_swallow(project, task_id, checkout_ok) ==
    LET u == update_task_status(project, task_id, STARTED)
        branch_name == Encode(project.project_abbv, u.task.id, u.task.title)
    IN  IF ~u.ok
        THEN [outcome |-> "ValueError", project |-> u.project, branch |-> None]
        ELSE [outcome |-> "ok", project |-> u.project,
              branch |-> IF checkout_ok THEN Some(branch_name) ELSE None]

\* The body of start: the status is set in memory, the branch name built, and
\* _checkout_branch called: creating the head and checking it out succeeds or
\* raises as the repository decides.
start_body(project, task_id, checkout_ok) ==
    LET u == update_task_status(project, task_id, STARTED)
        branch_name == Encode(project.project_abbv, u.task.id, u.task.title)
    IN  IF ~u.ok
        THEN [outcome |-> "ValueError", project |-> u.project, branch |-> None]
        ELSE IF checkout_ok
        THEN [outcome |-> "ok", project |-> u.project, branch |-> Some(branch_name)]
        ELSE [outcome |-> "GitError", project |-> u.project, branch |-> None]

StartFinish(p) ==
    /\ Running(p, "start")
    /\ \E checkout_ok \in BOOLEAN :
          LET b == start_body(proc[p].mem, proc[p].id, checkout_ok)
          IN  Exit(p, FALSE, b.outcome, b.project, b.branch)
    /\ UNCHANGED assigned

\* A faulty variant: the branch is not decoded and task_id stays as given.
complete_task_id_undecoded(task_id, branch) == [ok |-> TRUE, task_id |-> task_id]

\* complete, before the unit of work: `if branch:` replaces task_id by the id
\* parsed from the branch name; an empty branch is falsy and leaves it None.
complete_task_id(task_id, branch) ==
    IF branch # None /\ branch[1] # <<>>
    THEN LET d == Decode(branch[1])
         IN  [ok |-> d.ok, task_id |-> IF d.ok THEN Some(d.task_id) ELSE None]
    ELSE [ok |-> TRUE, task_id |-> task_id]

\* task complete --task / --branch: both or neither is a usage error; a
\* non-empty branch is decoded before the document is read.
CompleteLoad(p) ==
    \E task_id \in {None} \cup {Some(i) : i \in IdInputs},
       branch \in {None} \cup {Some(b) : b \in BranchInputs} :
        /\ proc[p].pc = "idle"
        /\ IF (branch # None /\ task_id # None) \/ (branch = None /\ task_id = None)
           THEN /\ Turn(p)
                /\ last' = Finished("complete", task_id, <<>>, "UsageError", 0,
                                    NoProject, None, <<>>, 0 - 1)
                /\ UNCHANGED <<file, proc, assigned>>
           ELSE LET r == complete_task_id(task_id, branch)
                    given == IF branch = None THEN <<>> ELSE branch[1]
                IN  IF r.ok
                    THEN Load(p, "complete", r.task_id, given)
                    ELSE /\ Turn(p)
                         /\ last' = Finished("complete", None, given, "TypeError",
                                             0, NoProject, None, <<>>, 0 - 1)
                         /\ UNCHANGED <<file, proc, assigned>>

\* A status command's body is the one call of update_task_status.
StatusFinish(p, c, status) ==
    /\ Running(p, c)
    /\ LET u == update_task_status(proc[p].mem, proc[p].id, status)
       IN  Exit(p, FALSE, IF u.ok THEN "ok" ELSE "ValueError", u.project, None)
    /\ UNCHANGED assigned

CompleteFinish(p) == StatusFinish(p, "complete", COMPLETE)

\* task mark_incomplete --task
MarkIncompleteLoad(p) ==
    \E id \in IdInputs : Load(p, "mark_incomplete", Some(id), <<>>)

MarkIncompleteFinish(p) == StatusFinish(p, "mark_incomplete", INCOMPLETE)

\* project info: a read-only unit of work that lists the tasks.
InfoLoad(p) == Load(p, "info", None, <<>>)

InfoFinish(p) ==
    /\ Running(p, "info")
    /\ Exit(p, TRUE, "ok", proc[p].mem, None)
    /\ UNCHANGED assigned

\* project migrate: json.loads of the file ...
MigrateRead(p) ==
    /\ proc[p].pc = "idle"
    /\ Turn(p)
    /\ proc' = [proc EXCEPT ![p] =
                  [pc |-> "loaded", cmd |-> "migrate", id |-> None,
                   title |-> <<>>, mem |-> file]]
    /\ last' = NoLast
    /\ UNCHANGED <<file, assigned>>

\* ... then the loop and the write.  Any registered step may raise.
MigrateRun(p) ==
    /\ Running(p, "migrate")
    /\ Turn(p)
    /\ \E failAt \in (0 - 1)..(nmig - 1) :
          LET m == migrate_project(proc[p].mem, nmig, failAt, file)
          IN  /\ file' = m.file
              /\ last' = Finished("migrate", None, <<>>,
                                  IF m.ok THEN "ok" ELSE "StepError",
                                  m.wrote, proc[p].mem, None, m.ran, m.raised)
    /\ proc' = [proc EXCEPT ![p] = IdleProc]
    /\ UNCHANGED assigned

\* project init --project_name: Project(name=project_name) is built and, if
\* that returns, written.  No document is read.
ProjectInit(p) ==
    /\ proc[p].pc = "idle"
    /\ Turn(p)
    /\ LET r == Project([name |-> Name])
       IN  /\ file' = IF r.ok THEN write(r.project) ELSE file
           /\ last' = Finished("init", None, Name,
                               IF r.ok THEN "ok" ELSE "ValidationError",
                               IF r.ok THEN 1 ELSE 0, NoProject, None, <<>>, 0 - 1)
    /\ UNCHANGED <<proc, assigned>>

Next ==
    \E p \in Procs :
        \/ ProjectInit(p)
        \/ AddLoad(p) \/ AddFinish(p)
        \/ StartLoad(p) \/ StartFinish(p)
        \/ CompleteLoad(p) \/ CompleteFinish(p)
        \/ MarkIncompleteLoad(p) \/ MarkIncompleteFinish(p)
        \/ InfoLoad(p) \/ InfoFinish(p)
        \/ MigrateRead(p) \/ MigrateRun(p)

\* One command at a time.
Spec == Init /\ [][Next]_vars

\* Two shells: a command may start while another has read and not yet written.
SpecRace == InitRace /\ [][Next]_vars

\* ------------------------------------------------------- the codec alone

\* Every sequence over S of length lo..hi.
SeqsOf(S, lo, hi) == UNION {[1..k -> S] : k \in lo..hi}

\* Abbreviations: empty ones, and ones holding "-", a digit or "/".
CodecAbbvs == SeqsOf({"a", "-", "1", "/"}, 0, MaxAbbvLen)
\* Titles: non-empty, without "/".
CodecTitles == SeqsOf({"A", " ", "1"}, 1, MaxTitleLen)
CodecIds == 1..MaxCodecId

InitCodec ==
    /\ mode = "codec"
    /\ nmig = 1
    /\ file = VersionedDoc(0, FreshContent)
    /\ doc0 = file
    /\ proc = [p \in Procs |-> IdleProc]
    /\ last = NoLast
    /\ assigned = <<>>
    /\ steps = 0
    /\ codec \in {[pc |-> "input", abbv |-> a, id |-> i, title |-> t,
                   branch |-> <<>>, decoded |-> [ok |-> FALSE, task_id |-> 0]] :
                     a \in CodecAbbvs, i \in CodecIds, t \in CodecTitles}

\* start builds the branch name of a task ...
CodecEncode ==
    /\ codec.pc = "input"
    /\ codec' = [codec EXCEPT !.pc = "encoded",
                              !.branch = Encode(codec.abbv, codec.id, codec.title)]
    /\ UNCHANGED <<mode, nmig, file, proc, last, doc0, assigned, steps>>

\* ... and complete --branch parses it.
CodecDecode ==
    /\ codec.pc = "encoded"
    /\ codec' = [codec EXCEPT !.pc = "decoded", !.decoded = Decode(codec.branch)]
    /\ UNCHANGED <<mode, nmig, file, proc, last, doc0, assigned, steps>>

NextCodec == CodecEncode \/ CodecDecode

SpecCodec == InitCodec /\ [][NextCodec]_vars

\* ================================================================ claims

StatusCommands == {"start", "complete", "mark_incomplete"}
UnitsOfWork == StatusCommands \cup {"add", "info"}

\* The status a status command sets.
Target(c) ==
    IF c = "start" THEN STARTED ELSE IF c = "complete" THEN COMPLETE ELSE INCOMPLETE

\* The last command was a unit of work whose document validated.
LastLoaded == last.cmd \in UnitsOfWork /\ "tasks" \in DOMAIN last.loaded

\* The last command was a status command on a task of the loaded project.
LastOnTask ==
    /\ last.cmd \in StatusCommands
    /\ "tasks" \in DOMAIN last.loaded
    /\ last.id # None
    /\ last.id[1] \in DOMAIN last.loaded.tasks

\* The run started from a project without tasks and with next_id = 0.
FreshStart == NextIdOf(doc0) = 0 /\ DOMAIN TasksOf(doc0) = {}

\* The steps a..b in order.
FromTo(a, b) == [i \in 1..(b - a + 1) |-> a + i - 1]

\* No element of the sequence occurs twice.
NoRepeat(q) == \A i, j \in 1..Len(q) : q[i] = q[j] => i = j

\* C1: from a project without tasks and with next_id = 0, the n-th
\* successful add assigns id n (1, 2, 3, ... with no id reused), the
\* persisted next_id is the id assigned last (0 while there is none), and no
\* command lowers the persisted next_id.
C1_AddAssignsNextId ==
    /\ FreshStart =>
          /\ assigned = FromTo(1, Len(assigned))
          /\ NextIdOf(file) = Len(assigned)
          /\ DOMAIN TasksOf(file) = 1..Len(assigned)
    /\ (last.cmd = "add" /\ last.outcome = "ok") =>
          /\ NextIdOf(file) = assigned[Len(assigned)]
          /\ NextIdOf(file) = NextIdOf(last.pre) + 1
          /\ NextIdOf(file) \notin DOMAIN TasksOf(last.pre)
          /\ TasksOf(file)[NextIdOf(file)].id = NextIdOf(file)
    /\ last.wrote = 1 => NextIdOf(file) >= NextIdOf(last.pre)

C1_Witness ==
    /\ FreshStart
    /\ last.cmd = "add" /\ last.outcome = "ok"
    /\ assigned = <<1, 2>>

\* C2: a unit of work writes the document once when its body returned and
\* it is not read-only, and not at all otherwise: when the body raised, or
\* the unit is read-only, the document is what it was before the unit of
\* work, whatever the body changed in memory.
C2_WriteIffBodyReturned ==
    last.cmd \in UnitsOfWork =>
        /\ last.wrote \in {0, 1}
        /\ last.wrote = 1 <=> (LastLoaded /\ last.outcome = "ok" /\ last.cmd # "info")
        /\ last.wrote = 0 => file = last.pre
        /\ (last.wrote = 1 /\ last.cmd \in StatusCommands) =>
              file = write(update_task_status(last.loaded, last.id,
                                              Target(last.cmd)).project)

\* A start whose checkout raised after the status was set in memory.
C2_Witness ==
    /\ last.cmd = "start" /\ last.outcome = "GitError"
    /\ last.wrote = 0
    /\ file = last.pre
    /\ TasksOf(file)[last.id[1]].status # STARTED

\* C3: with N steps registered, a migrate that completes on a document at
\* version v, -1 <= v <= N-1 (-1: no version field), applies the steps
\* v+1..N-1, each once, in ascending order and no other, and persists
\* version N-1.
C3_MigrateAppliesPending ==
    (/\ last.cmd = "migrate" /\ last.outcome = "ok"
     /\ GetVersion(last.loaded) \in (0 - 1)..(nmig - 1)) =>
        /\ last.ran = FromTo(GetVersion(last.loaded) + 1, nmig - 1)
        /\ last.wrote = 1
        /\ "version" \in DOMAIN file /\ file.version = nmig - 1
        /\ file.applied = last.loaded.applied \o last.ran
        /\ ("version" \notin DOMAIN last.loaded) => file.applied = UpTo(nmig - 1)

\* A document without a version field taken through two steps.
C3_Witness ==
    /\ last.cmd = "migrate" /\ last.outcome = "ok"
    /\ "version" \notin DOMAIN last.loaded
    /\ last.ran = <<0, 1>>
    /\ file.version = 1

\* C4: a migrate on a document at version N-1 applies no step and leaves the
\* persisted document as it was, so a second migrate changes nothing; and
\* over repeated migrates no step is applied twice to the document.
C4_MigrateIdempotent ==
    /\ (last.cmd = "migrate" /\ GetVersion(last.loaded) = nmig - 1) =>
          /\ last.outcome = "ok"
          /\ last.ran = <<>>
          /\ file = last.pre
          /\ file = last.loaded
    /\ NoRepeat(file.applied)

\* The second migrate of a document that started without a version.
C4_Witness ==
    /\ last.cmd = "migrate" /\ last.outcome = "ok" /\ last.wrote = 1
    /\ "version" \notin DOMAIN doc0
    /\ GetVersion(last.loaded) = nmig - 1
    /\ file = last.pre

\* C5: when step k raises, no step after k runs and nothing is written, so
\* the persisted version stays below k; and every persisted document with
\* version i carries the edits of exactly the steps 0..i.
C5_FailedStepNotPersisted ==
    /\ (last.cmd = "migrate" /\ last.outcome = "StepError") =>
          /\ \A i \in 1..Len(last.ran) : last.ran[i] < last.raised
          /\ last.wrote = 0
          /\ file = last.pre
          /\ GetVersion(file) < last.raised
    /\ "version" \in DOMAIN file => file.applied = UpTo(file.version)

\* Step 0 returned, step 1 raised.
C5_Witness ==
    /\ last.cmd = "migrate" /\ last.outcome = "StepError"
    /\ last.raised = 1 /\ last.ran = <<0>>
    /\ GetVersion(file) = 0 - 1

\* C6: a unit of work migrates the raw document before it parses it, so a
\* document behind the latest version (or without a version field) loads,
\* and the body sees a project at version N-1.
C6_MigratesBeforeParse ==
    /\ \A p \in Procs :
          (proc[p].pc = "loaded" /\ proc[p].cmd \in UnitsOfWork) =>
              proc[p].mem.version >= nmig - 1
    /\ (last.cmd \in UnitsOfWork /\ last.outcome = "ValidationError") =>
          "version" \in DOMAIN last.pre

\* C7: no write lowers the persisted version, also when a migrate runs
\* between the read and the write of another command; migrate does not
\* downgrade a document of a later release.
C7_VersionNeverDecreases ==
    /\ last.wrote = 1 => GetVersion(file) >= GetVersion(last.pre)
    /\ (last.cmd = "migrate" /\ GetVersion(last.pre) > nmig - 1) =>
          GetVersion(file) = GetVersion(last.pre)

\* C8 as stated: a status command on an existing task is never rejected and
\* leaves the persisted task in the status it targets.
C8_NeverRejected ==
    LastOnTask =>
        /\ last.outcome = "ok"
        /\ TasksOf(file)[last.id[1]].status = Target(last.cmd)

\* C8, amended: whatever the task's current status, complete and
\* mark_incomplete succeed and persist their target status, and start does
\* so whenever the checkout succeeds; a start whose checkout raises fails,
\* writes nothing and leaves the persisted status as it was.
C8_StatusUnrestricted ==
    LastOnTask =>
        /\ last.outcome = "ok" \/ (last.cmd = "start" /\ last.outcome = "GitError")
        /\ last.outcome = "ok" =>
              /\ last.wrote = 1
              /\ TasksOf(file)[last.id[1]].status = Target(last.cmd)
        /\ last.outcome = "GitError" =>
              /\ last.wrote = 0
              /\ file = last.pre

\* A start on a task that was Started already, and one on a Complete task.
C8_Witness ==
    /\ LastOnTask
    /\ last.cmd = "start" /\ last.outcome = "ok"
    /\ last.loaded.tasks[last.id[1]].status = STARTED
    /\ TasksOf(file)[last.id[1]].status = STARTED

\* C9: a status command on an id that is no key of project.tasks fails with
\* get_task's error and writes nothing; on a key, get_task returns the
\* stored task: the command does not fail that way, and what it writes is
\* that task with only its status replaced.
C9_UnknownIdRejected ==
    (last.cmd \in StatusCommands /\ "tasks" \in DOMAIN last.loaded) =>
        IF LastOnTask
        THEN /\ last.outcome # "ValueError"
             /\ last.wrote = 1 =>
                   TasksOf(file) =
                     [last.loaded.tasks EXCEPT ![last.id[1]].status = Target(last.cmd)]
        ELSE /\ last.outcome = "ValueError"
             /\ last.wrote = 0
             /\ file = last.pre

\* An id that is no key, in a project that has tasks.
C9_Witness ==
    /\ last.cmd = "mark_incomplete" /\ last.outcome = "ValueError"
    /\ "tasks" \in DOMAIN last.loaded
    /\ DOMAIN last.loaded.tasks = {1}
    /\ last.id = Some(2)
    /\ file = last.pre

\* C10: decoding the branch name built from abbv, id and title gives id.
C10_DecodeRecoversId ==
    codec.pc = "decoded" =>
        /\ codec.decoded.ok
        /\ codec.decoded.task_id = codec.id

\* C11: complete --branch decodes the branch name before the document is
\* read: the unit of work starts with the decoded id, the task completed is
\* the one under that id, and no other task changes.
C11_BranchDecodedFirst ==
    /\ \A p \in Procs :
          (Running(p, "complete") /\ proc[p].title # <<>>) =>
              proc[p].id = Some(Decode(proc[p].title).task_id)
    /\ (last.cmd = "complete" /\ last.title # <<>> /\ "tasks" \in DOMAIN last.loaded) =>
          LET id == Decode(last.title).task_id
          IN  /\ last.id = Some(id)
              /\ IF id \in DOMAIN last.loaded.tasks
                 THEN /\ last.outcome = "ok"
                      /\ TasksOf(file) =
                           [last.loaded.tasks EXCEPT ![id].status = COMPLETE]
                 ELSE /\ last.outcome = "ValueError"
                      /\ file = last.pre

\* Task 1 completed through its branch name while task 2 stays Started.
C11_Witness ==
    /\ last.cmd = "complete" /\ last.outcome = "ok"
    /\ last.title = Encode(Abbv, 1, <<"A", " ", "b">>)
    /\ DOMAIN TasksOf(file) = {1, 2}
    /\ TasksOf(file)[1].status = COMPLETE
    /\ TasksOf(file)[2].status = STARTED
    /\ last.loaded.tasks[1].status # COMPLETE

\* C12: a branch name that does not match the pattern (the empty string
\* included) gives an error instead of a task id, and complete, given such a
\* branch, neither reads nor writes the document.  (A complete that is past
\* its usage check with no task id was given a branch and got no id from it.)
C12_BadBranchNoRead ==
    /\ \A p \in Procs : Running(p, "complete") => proc[p].id # None
    /\ (last.cmd = "complete" /\ last.id = None /\ last.outcome # "UsageError") =>
          /\ last.outcome = "TypeError"
          /\ last.wrote = 0
          /\ "tasks" \notin DOMAIN last.loaded

\* C13: init, given only a project name, succeeds and persists a document with
\* that name, next_id 0, no task and the latest schema version, so that a
\* following unit of work can load it.
C13_InitPersists ==
    last.cmd = "init" =>
        /\ last.outcome = "ok"
        /\ last.wrote = 1
        /\ read(file).ok
        /\ file.name = last.title
        /\ file.version = nmig - 1
        /\ NextIdOf(file) = 0
        /\ DOMAIN TasksOf(file) = {}

\* What the body of the last unit of work computes from the snapshot it loaded.
Computed ==
    IF last.cmd = "add" THEN add_body(last.loaded, last.title)
    ELSE IF last.cmd \in StatusCommands
    THEN update_task_status(last.loaded, last.id, Target(last.cmd))
    ELSE [ok |-> TRUE, task |-> Task(0, <<>>), project |-> last.loaded]

\* The document changed between the load and the end of the last unit of work.
Overtaken == LastLoaded /\ read(last.pre).project # last.loaded

\* C14: last writer wins.  A unit of work that loaded before another saved
\* ends as its own snapshot decides, with no error from the race, and what it
\* writes is exactly what it computed from that snapshot: what the earlier
\* saver wrote is gone.
C14_LastWriterWins ==
    (LastLoaded /\ last.cmd # "info") =>
        /\ Computed.ok =>
              last.outcome \in (IF last.cmd = "start" THEN {"ok", "GitError"} ELSE {"ok"})
        /\ ~Computed.ok => last.outcome \in {"ValueError", "AssertionError"}
        /\ last.outcome = "ok" =>
              /\ last.wrote = 1
              /\ file = write(Computed.project)

\* Two adds load the empty project; the second save replaces the first one's task.
C14_Witness ==
    /\ Overtaken
    /\ assigned = <<1, 1>>
    /\ last.cmd = "add" /\ last.outcome = "ok"
    /\ last.loaded.tasks = EmptyTasks
    /\ TasksOf(last.pre)[1].title = <<>>
    /\ NextIdOf(file) = 1
    /\ DOMAIN TasksOf(file) = {1}
    /\ TasksOf(file)[1].title = <<"A", " ", "b">>

\* C15: add requires a non-empty title.  An add with the empty title is
\* rejected and leaves the document as it was, so no persisted task has an
\* empty title.
C15_EmptyTitleRejected ==
    /\ (LastLoaded /\ last.cmd = "add" /\ last.title = <<>>) =>
          /\ last.outcome # "ok"
          /\ last.wrote = 0
          /\ file = last.pre
    /\ \A k \in DOMAIN TasksOf(file) : TasksOf(file)[k].title # <<>>

\* The last command was an add whose loaded project already holds a task
\* under next_id + 1.
AddOnOccupied ==
    /\ LastLoaded
    /\ last.cmd = "add"
    /\ last.loaded.next_id + 1 \in DOMAIN last.loaded.tasks

\* C16: when the loaded project already holds a task under next_id + 1, add
\* fails on its assertion before inserting and nothing is written: the
\* document is unchanged, the task under that id is the one that was there
\* and the persisted next_id is not advanced.
C16_OccupiedIdAborts ==
    AddOnOccupied =>
        LET k == last.loaded.next_id + 1
        IN  /\ last.outcome = "AssertionError"
            /\ last.wrote = 0
            /\ file = last.pre
            /\ TasksOf(file)[k] = last.loaded.tasks[k]
            /\ NextIdOf(file) = last.loaded.next_id

C16_Witness ==
    /\ AddOnOccupied
    /\ last.title = <<"A", " ", "b">>
    /\ last.outcome = "AssertionError"
    /\ NextIdOf(file) = 0
    /\ TasksOf(file)[1].title = <<"a">>

\* update_task_status(id, s) applied twice to the project gives what one
\* application gives, for every task of the project and every status.
SetTwiceIsSetOnce(project) ==
    \A id \in DOMAIN project.tasks, s \in TaskStatus :
        LET once == update_task_status(project, Some(id), s)
            twice == update_task_status(once.project, Some(id), s)
        IN  /\ once.ok /\ twice.ok
            /\ once.task.status = s
            /\ twice.project = once.project
            /\ twice.task = once.task

\* C17: setting a status is idempotent.  On every project a unit of work has
\* loaded, a second update_task_status(id, s) returns the same task and
\* leaves the project as the first left it; and the document a status
\* command wrote is the document a repetition of the command would write.
C17_SetStatusIdempotent ==
    /\ \A p \in Procs :
          (proc[p].pc = "loaded" /\ proc[p].cmd \in UnitsOfWork) =>
              SetTwiceIsSetOnce(proc[p].mem)
    /\ (LastOnTask /\ last.outcome = "ok") =>
          /\ SetTwiceIsSetOnce(last.loaded)
          /\ write(update_task_status(read(file).project, last.id,
                                      Target(last.cmd)).project) = file

\* A status command changed the status of a task that had another status.
C17_Witness ==
    /\ LastOnTask /\ last.outcome = "ok"
    /\ last.cmd = "complete"
    /\ last.loaded.tasks[last.id[1]].status = STARTED
    /\ TasksOf(file)[last.id[1]].status = COMPLETE
    /\ update_task_status(read(file).project, last.id, COMPLETE).task
          = TasksOf(file)[last.id[1]]

\* Every task of document a is in document b under its key, id and title.
TasksKept(a, b) ==
    \A k \in DOMAIN TasksOf(a) :
        /\ k \in DOMAIN TasksOf(b)
        /\ TasksOf(b)[k].id = TasksOf(a)[k].id
        /\ TasksOf(b)[k].title = TasksOf(a)[k].title

\* C18: frame of the task operations.  No command changes the id or the
\* title of a task that exists or removes a task; a status command on id i
\* changes the status of task i and nothing else of the project; add leaves
\* every task that existed as it was.
C18_Frame ==
    /\ last.cmd # "none" =>
          /\ TasksKept(last.pre, file)
          /\ file.name = last.pre.name
          /\ file.project_abbv = last.pre.project_abbv
    /\ LastLoaded =>
          /\ TasksKept(last.loaded, file)
          /\ file.version = last.loaded.version
    /\ (LastOnTask /\ last.outcome = "ok") =>
          /\ file = write([last.loaded EXCEPT
                             !.tasks[last.id[1]].status = Target(last.cmd)])
          /\ \A k \in DOMAIN TasksOf(file) \ {last.id[1]} :
                TasksOf(file)[k] = last.loaded.tasks[k]
          /\ DOMAIN TasksOf(file) = DOMAIN last.loaded.tasks
          /\ NextIdOf(file) = last.loaded.next_id
    /\ (LastLoaded /\ last.cmd = "add" /\ last.outcome = "ok") =>
          /\ \A k \in DOMAIN last.loaded.tasks : TasksOf(file)[k] = last.loaded.tasks[k]
          /\ DOMAIN TasksOf(file) = DOMAIN last.loaded.tasks \cup {NextIdOf(file)}

\* A start of task 2 beside a completed task 1 with a title.
C18_Witness ==
    /\ LastOnTask /\ last.outcome = "ok"
    /\ last.cmd = "start" /\ last.id = Some(2)
    /\ last.loaded.tasks[2].status = INCOMPLETE
    /\ TasksOf(file)[2].status = STARTED
    /\ TasksOf(file)[2].title = <<"A", " ", "b">>
    /\ TasksOf(file)[1].status = COMPLETE
    /\ TasksOf(file)[1] = last.loaded.tasks[1]

\* Each key of the task map holds the task with that id, and the keys lie in
\* 1..next_id.
KeysMatchIds(d) ==
    \A k \in DOMAIN TasksOf(d) :
        /\ TasksOf(d)[k].id = k
        /\ 1 <= k
        /\ k <= NextIdOf(d)

\* C19: from a project with next_id = 0 and no task, whatever units of work
\* and migrations run and however their loads and saves interleave, every
\* persisted document, and every snapshot a command holds, has each key k of
\* tasks on a task with id k and 1 <= k <= next_id; the assertion of add
\* never fails.
C19_KeysMatchIds ==
    FreshStart =>
        /\ KeysMatchIds(file)
        /\ \A p \in Procs : KeysMatchIds(proc[p].mem)
        /\ last.outcome # "AssertionError"

\* Two adds raced on the empty project and a third one has loaded the result.
C19_Witness ==
    /\ mode = "race"
    /\ FreshStart
    /\ assigned = <<1, 1>>
    /\ NextIdOf(file) = 1
    /\ DOMAIN TasksOf(file) = {1}
    /\ \E p \in Procs : Running(p, "add") /\ proc[p].mem.next_id = 1

\* C20: the order of start.  An unknown id fails before any branch is made;
\* when creating or checking out the branch fails nothing is written and the
\* persisted status of the task is the one it had; the document is written
\* only when the checkout of the task's branch succeeded, and then holds
\* the task as Started.
C20_StartWritesAfterCheckout ==
    (LastLoaded /\ last.cmd = "start") =>
        LET id == last.id[1]
            known == id \in DOMAIN last.loaded.tasks
        IN  /\ ~known => last.outcome = "ValueError" /\ last.branch = None
            /\ known => last.outcome \in {"ok", "GitError"}
            /\ last.outcome = "GitError" =>
                  /\ last.wrote = 0
                  /\ last.branch = None
                  /\ file = last.pre
                  /\ TasksOf(file)[id].status = last.loaded.tasks[id].status
            /\ last.wrote = 1 =>
                  /\ last.outcome = "ok"
                  /\ last.branch = Some(Encode(last.loaded.project_abbv, id,
                                               last.loaded.tasks[id].title))
                  /\ TasksOf(file)[id].status = STARTED

\* The checkout failed for a task that was not Started: it still is not.
C20_Witness ==
    /\ LastLoaded /\ last.cmd = "start"
    /\ last.outcome = "GitError"
    /\ last.id = Some(1)
    /\ last.loaded.tasks[1].status = COMPLETE
    /\ TasksOf(file)[1].status = COMPLETE
    /\ start_body(last.loaded, last.id, FALSE).project.tasks[1].status = STARTED

====
